---- MODULE Spec2Model ----
(***************************************************************************)
(* Mixed-priority routing core: CityGraph, build_qubo, MockSampler.sample, *)
(* decode_route, validate_route and quantum_solve.                         *)
(*                                                                         *)
(* Strings are sequences of one-character tokens, so that the variable     *)
(* naming x_<node_id>_<position> and its parsing (split on "_", join of    *)
(* the middle parts, int of the last part) are computed, not assumed.      *)
(* Reals are integers: edge distances are even integers so that the        *)
(* traffic multipliers 1.0 / 1.5 / 2.0 (kept doubled) give exact weights,  *)
(* and node coordinates lie on a 3-4-5 grid so that the Euclidean          *)
(* fallback is an exact integer.                                           *)
(***************************************************************************)
EXTENDS Integers, Sequences, FiniteSets, TLC

\* ------------------------------------------------------------------ bounds
\* Largest number of nodes (depot included) of a graph.
MaxNodes == 3

\* Largest number of delivery node ids handed to decode_route.
MaxDecode == 2

\* ------------------------------------------------------------ generic helpers
\* sum of a sequence of integers (by halves, to keep the recursion shallow)
RECURSIVE SumRange(_, _, _)
SumRange(s, lo, hi) ==
    IF lo > hi THEN 0
    ELSE IF lo = hi THEN s[lo]
    ELSE LET mid == (lo + hi) \div 2
         IN  SumRange(s, lo, mid) + SumRange(s, mid + 1, hi)

SumSeq(s) == SumRange(s, 1, Len(s))

RECURSIVE Flatten(_)
Flatten(ss) == IF ss = <<>> THEN <<>> ELSE Head(ss) \o Flatten(Tail(ss))

Range(s) == { s[i] : i \in DOMAIN s }

NoDuplicates(s) == \A i, j \in DOMAIN s : i # j => s[i] # s[j]

\* float('inf') and a finite float
Inf == [ inf |-> TRUE ]
Fin(w) == [ inf |-> FALSE, w |-> w ]

\* None, and a value that is not None
None == <<>>
Some(x) == << x >>

\* ------------------------------------------------------------ strings
Digits == << "0", "1", "2", "3", "4", "5", "6", "7", "8", "9" >>

IsDigit(c) == \E d \in DOMAIN Digits : Digits[d] = c

DigitValue(c) == (CHOOSE d \in DOMAIN Digits : Digits[d] = c) - 1

\* str(pos) for a non-negative integer
RECURSIVE Str(_)
Str(k) == IF k < 10 THEN << Digits[k + 1] >>
          ELSE Str(k \div 10) \o << Digits[(k % 10) + 1] >>

\* s.split("_"): the parts between the separators, empty parts kept
RECURSIVE SplitFrom(_, _, _)
SplitFrom(s, cur, acc) ==
    IF s = <<>> THEN Append(acc, cur)
    ELSE IF Head(s) = "_" THEN SplitFrom(Tail(s), <<>>, Append(acc, cur))
    ELSE SplitFrom(Tail(s), Append(cur, Head(s)), acc)

Split(s) == SplitFrom(s, <<>>, <<>>)

\* a join that leaves the separator out
RECURSIVE Join_NoSeparator(_)
Join_NoSeparator(parts) ==
    IF parts = <<>> THEN <<>>
    ELSE parts[1] \o Join_NoSeparator(Tail(parts))

\* "_".join(parts)
RECURSIVE Join(_)
Join(parts) ==
    IF parts = <<>> THEN <<>>
    ELSE IF Len(parts) = 1 THEN parts[1]
    ELSE parts[1] \o << "_" >> \o Join(Tail(parts))

\* whether int(s) returns (True) or raises ValueError (False)
IntOk(s) ==
    \/ /\ Len(s) >= 1
       /\ \A i \in DOMAIN s : IsDigit(s[i])
    \/ /\ Len(s) >= 2
       /\ s[1] \in {"-", "+"}
       /\ \A i \in 2..Len(s) : IsDigit(s[i])

RECURSIVE NatOf(_)
NatOf(s) == IF s = <<>> THEN 0
            ELSE 10 * NatOf(SubSeq(s, 1, Len(s) - 1)) + DigitValue(s[Len(s)])

\* int(s) when IntOk(s)
IntOf(s) == IF s[1] = "-" THEN 0 - NatOf(Tail(s))
            ELSE IF s[1] = "+" THEN NatOf(Tail(s))
            ELSE NatOf(s)

\* s.startswith(prefix)
StartsWith(s, prefix) ==
    Len(s) >= Len(prefix) /\ SubSeq(s, 1, Len(prefix)) = prefix

\* key.startswith("x_")
StartsWithX(key) == StartsWith(key, << "x", "_" >>)

\* the node id taken as parts[1] alone: the split on the first separators
ParsedNode_FirstPart(key) ==
    LET parts == Split(key)
    IN  IF Len(parts) >= 2 THEN parts[2] ELSE <<>>

\* "_".join(parts[1:-1]) of key.split("_")
ParsedNode(key) ==
    LET parts == Split(key)
    IN  Join(SubSeq(parts, 2, Len(parts) - 1))

\* parts[-1] of key.split("_")
LastPart(key) ==
    LET parts == Split(key)
    IN  parts[Len(parts)]

\* build_qubo.var: f"x_{node_id}_{pos}"
Var(node_id, p) == << "x", "_" >> \o node_id \o << "_" >> \o Str(p)

\* ------------------------------------------------------------ data model
\* NodeType
PRIORITY == "priority"
NORMAL == "normal"
DEPOT == "depot"

NodeTypes == { PRIORITY, NORMAL, DEPOT }

\* TrafficLevel
TrafficLevels == { "low", "medium", "high" }

\* CityGraph.traffic_multipliers default {"low": 1.0, "medium": 1.5, "high": 2.0},
\* each value doubled
DefaultMultipliers2 == [ low |-> 2, medium |-> 3, high |-> 4 ]

\* QUBOParams defaults
DefaultParams == [ A |-> 100, B |-> 500, Bp |-> 1000, C |-> 1 ]

\* CityGraph.priority_nodes
priority_nodes(g) == SelectSeq(g.nodes, LAMBDA nd : nd.type = PRIORITY)

\* CityGraph.normal_nodes
normal_nodes(g) == SelectSeq(g.nodes, LAMBDA nd : nd.type = NORMAL)

\* CityGraph.delivery_nodes: every node but the depot
delivery_nodes(g) == SelectSeq(g.nodes, LAMBDA nd : nd.type # DEPOT)

\* CityGraph.depot_node: the depot, or None
depot_node(g) ==
    LET ds == SelectSeq(g.nodes, LAMBDA nd : nd.type = DEPOT)
    IN  IF ds = <<>> THEN None ELSE Some(ds[1])

\* the field constraints without min_length on edges
MinLengths_NodesOnly(nodes, edges) == Len(nodes) >= 2

\* CityGraph fields: nodes min_length=2, edges min_length=1
MinLengths(nodes, edges) == Len(nodes) >= 2 /\ Len(edges) >= 1

\* CityGraph validator: at most 1 depot
AtMostOneDepot(nodes) ==
    Cardinality({ i \in DOMAIN nodes : nodes[i].type = DEPOT }) <= 1

\* CityGraph construction succeeds
GraphAccepted(nodes, edges) == MinLengths(nodes, edges) /\ AtMostOneDepot(nodes)

Ids(nodes) == [ i \in DOMAIN nodes |-> nodes[i].id ]

\* CityGraph.get_node
get_node(g, node_id) ==
    LET hits == SelectSeq(g.nodes, LAMBDA nd : nd.id = node_id)
    IN  IF hits = <<>> THEN None ELSE Some(hits[1])

\* the multiplier of a level, doubled; .get(level, 1.0)
Multiplier2(g, level) ==
    IF level \in DOMAIN g.traffic_multipliers
    THEN g.traffic_multipliers[level] ELSE 2

EdgeMatches(e, from_id, to_id) ==
    \/ e.from_node = from_id /\ e.to_node = to_id
    \/ e.from_node = to_id /\ e.to_node = from_id

\* exact square root (the coordinates keep every distance an integer)
Sqrt(sq) == CHOOSE r \in 0..sq : r * r = sq

\* CityGraph.get_edge_weight
get_edge_weight(g, from_id, to_id) ==
    LET hits == SelectSeq(g.edges, LAMBDA e : EdgeMatches(e, from_id, to_id))
        n1 == get_node(g, from_id)
        n2 == get_node(g, to_id)
    IN  IF hits # <<>>
        THEN Fin((hits[1].distance * Multiplier2(g, hits[1].traffic)) \div 2)
        ELSE IF n1 # None /\ n2 # None
        THEN Fin(Sqrt((n1[1].x - n2[1].x) * (n1[1].x - n2[1].x)
                      + (n1[1].y - n2[1].y) * (n1[1].y - n2[1].y)))
        ELSE Inf

\* weight < float('inf')
Finite(w) == ~w.inf

\* ------------------------------------------------------------ BQM (dimod)
Pairs(vs) == { {u, v} : u, v \in vs } \ { {u} : u \in vs }

RECURSIVE RemoveDuplicates(_)
RemoveDuplicates(s) ==
    IF s = <<>> THEN <<>>
    ELSE LET front == RemoveDuplicates(SubSeq(s, 1, Len(s) - 1))
             last == s[Len(s)]
         IN  IF last \in Range(front) THEN front ELSE Append(front, last)

AddLinear(v, bias) == [ op |-> "add_linear", key |-> {v}, bias |-> bias ]
AddQuadratic(u, v, bias) == [ op |-> "add_quadratic", key |-> {u, v}, bias |-> bias ]
AddOffset(bias) == [ op |-> "offset", key |-> {}, bias |-> bias ]

\* the sum of the biases the calls of kind op made on key: dimod accumulates,
\* and the key of a quadratic bias is the unordered pair
Accumulated(ops, op, key) ==
    SumSeq([ i \in DOMAIN ops |->
               IF ops[i].op = op /\ ops[i].key = key THEN ops[i].bias ELSE 0 ])

\* the BinaryQuadraticModel after add_variable on variables and the calls ops
ApplyOps(variables, ops) ==
    [ variables |-> variables,
      linear    |-> [ v \in Range(variables) |-> Accumulated(ops, "add_linear", {v}) ],
      quadratic |-> [ pr \in Pairs(Range(variables)) |-> Accumulated(ops, "add_quadratic", pr) ],
      offset    |-> Accumulated(ops, "offset", {}) ]

EmptyBQM == ApplyOps(<<>>, <<>>)

\* the energy without the offset of the BQM
Energy_NoOffset(b, val) ==
    LET on == SelectSeq(b.variables, LAMBDA v : val[v] = 1)
    IN  SumSeq([ i \in DOMAIN on |-> b.linear[on[i]] ])
        + SumSeq([ i \in DOMAIN on |->
                     SumSeq([ j \in DOMAIN on |->
                                IF i < j THEN b.quadratic[{on[i], on[j]}] ELSE 0 ]) ])

\* bqm.energy(sample): offset, plus the linear biases of the 1-valued
\* variables, plus the quadratic biases of the pairs of 1-valued variables
Energy(b, val) ==
    LET on == SelectSeq(b.variables, LAMBDA v : val[v] = 1)
    IN  b.offset
        + SumSeq([ i \in DOMAIN on |-> b.linear[on[i]] ])
        + SumSeq([ i \in DOMAIN on |->
                     SumSeq([ j \in DOMAIN on |->
                                IF i < j THEN b.quadratic[{on[i], on[j]}] ELSE 0 ]) ])

\* ------------------------------------------------------------ build_qubo
\* node_ids = [node.id for node in delivery_nodes]
DeliveryIds(g) == Ids(delivery_nodes(g))

\* priority_ids / normal_ids among the delivery nodes
PriorityIds(g) == Ids(SelectSeq(delivery_nodes(g), LAMBDA nd : nd.type = PRIORITY))

NormalIds(g) == Ids(SelectSeq(delivery_nodes(g), LAMBDA nd : nd.type = NORMAL))

\* QuboVariables with the position loop one short: range(n - 1)
QuboVariables_Short(node_ids) ==
    LET n == Len(node_ids)
    IN  RemoveDuplicates(Flatten([ i \in 1..n |-> [ q \in 1..(n - 1) |-> Var(node_ids[i], q - 1) ] ]))

\* the add_variable loop: for node_id in node_ids: for p in range(n)
QuboVariables(node_ids) ==
    LET n == Len(node_ids)
    IN  RemoveDuplicates(Flatten([ i \in 1..n |-> [ q \in 1..n |-> Var(node_ids[i], q - 1) ] ]))

\* Constraint 1, one position q: the body of the loop over the positions
PositionOps(node_ids, pa, q) ==
    LET n == Len(node_ids)
    IN  [ i \in 1..n |-> AddLinear(Var(node_ids[i], q), (0 - 2) * pa.A) ]
        \o Flatten([ i \in 1..n |-> Flatten([ j \in 1..n |->
               IF i < j
               THEN << AddQuadratic(Var(node_ids[i], q), Var(node_ids[j], q), 2 * pa.A) >>
               ELSE <<>> ]) ])
        \o << AddOffset(pa.A) >>

\* Constraint 1: each position has exactly one node
Constraint1Ops(node_ids, pa) ==
    Flatten([ q \in 1..Len(node_ids) |-> PositionOps(node_ids, pa, q - 1) ])

\* the row pattern of constraints 2 and 4 for one node, with coefficient coef
RowOps(node_id, n, coef) ==
    [ q \in 1..n |-> AddLinear(Var(node_id, q - 1), (0 - 2) * coef) ]
    \o Flatten([ q \in 1..n |-> [ d \in 1..(n - q) |->
           AddQuadratic(Var(node_id, q - 1), Var(node_id, q + d - 1), 2 * coef) ] ])
    \o << AddOffset(coef) >>

\* Constraint 2: each node appears exactly once
Constraint2Ops(node_ids, pa) ==
    Flatten([ i \in 1..Len(node_ids) |-> RowOps(node_ids[i], Len(node_ids), pa.A) ])

\* Constraint 3 without the penalty on the priority nodes
Constraint3Ops_NormalOnly(n, prio_ids, norm_ids, pa) ==
    LET k == Len(prio_ids)
    IN  Flatten([ i \in 1..Len(norm_ids) |->
            [ q \in 1..k |-> AddLinear(Var(norm_ids[i], q - 1), pa.B) ] ])

\* Constraint 3: priority nodes in positions 0..k-1
Constraint3Ops(n, prio_ids, norm_ids, pa) ==
    LET k == Len(prio_ids)
    IN  Flatten([ i \in 1..Len(prio_ids) |->
            [ d \in 1..(n - k) |-> AddLinear(Var(prio_ids[i], k + d - 1), pa.B) ] ])
        \o Flatten([ i \in 1..Len(norm_ids) |->
            [ q \in 1..k |-> AddLinear(Var(norm_ids[i], q - 1), pa.B) ] ])

\* Constraint 4 over the first k positions only
Constraint4Ops_ZoneOnly(n, prio_ids, pa) ==
    Flatten([ i \in 1..Len(prio_ids) |-> RowOps(prio_ids[i], Len(prio_ids), pa.Bp) ])

\* Constraint 4: all priority nodes must be visited
Constraint4Ops(n, prio_ids, pa) ==
    Flatten([ i \in 1..Len(prio_ids) |-> RowOps(prio_ids[i], n, pa.Bp) ])

\* Objective that visits every pair of nodes in one order only
ObjectiveOps_OneOrder(g, node_ids, pa) ==
    LET n == Len(node_ids)
    IN  Flatten([ q \in 1..(n - 1) |->
          Flatten([ u \in 1..n |-> Flatten([ v \in 1..n |->
            IF u < v
            THEN LET weight == get_edge_weight(g, node_ids[u], node_ids[v])
                 IN  IF Finite(weight)
                     THEN << AddQuadratic(Var(node_ids[u], q - 1),
                                          Var(node_ids[v], q), pa.C * weight.w) >>
                     ELSE <<>>
            ELSE <<>> ]) ]) ])

\* Objective: traffic-weighted distance between consecutive positions
ObjectiveOps(g, node_ids, pa) ==
    LET n == Len(node_ids)
    IN  Flatten([ q \in 1..(n - 1) |->
          Flatten([ u \in 1..n |-> Flatten([ v \in 1..n |->
            IF node_ids[u] # node_ids[v]
            THEN LET weight == get_edge_weight(g, node_ids[u], node_ids[v])
                 IN  IF Finite(weight)
                     THEN << AddQuadratic(Var(node_ids[u], q - 1),
                                          Var(node_ids[v], q), pa.C * weight.w) >>
                     ELSE <<>>
            ELSE <<>> ]) ]) ])

\* Depot bias on the variables of the last position
DepotOps_LastPosition(g, node_ids, pa) ==
    LET depot == depot_node(g)
    IN  IF depot # None
        THEN Flatten([ i \in 1..Len(node_ids) |->
               LET weight == get_edge_weight(g, depot[1].id, node_ids[i])
               IN  IF Finite(weight)
                   THEN << AddLinear(Var(node_ids[i], Len(node_ids) - 1), pa.C * weight.w) >>
                   ELSE <<>> ])
        ELSE <<>>

\* Depot bias on the position 0 variables
DepotOps(g, node_ids, pa) ==
    LET depot == depot_node(g)
    IN  IF depot # None
        THEN Flatten([ i \in 1..Len(node_ids) |->
               LET weight == get_edge_weight(g, depot[1].id, node_ids[i])
               IN  IF Finite(weight)
                   THEN << AddLinear(Var(node_ids[i], 0), pa.C * weight.w) >>
                   ELSE <<>> ])
        ELSE <<>>

QuboOps(g, pa) ==
    LET node_ids == DeliveryIds(g)
        n == Len(node_ids)
    IN  Constraint1Ops(node_ids, pa)
        \o Constraint2Ops(node_ids, pa)
        \o Constraint3Ops(n, PriorityIds(g), NormalIds(g), pa)
        \o Constraint4Ops(n, PriorityIds(g), pa)
        \o ObjectiveOps(g, node_ids, pa)
        \o DepotOps(g, node_ids, pa)

build_qubo(g, pa) == ApplyOps(QuboVariables(DeliveryIds(g)), QuboOps(g, pa))

\* ------------------------------------------------------------ MockSampler.sample
\* the ordered keys of the positions dict (first occurrence order)
PositionKeys(variables) ==
    RemoveDuplicates([ i \in DOMAIN variables |-> IntOf(LastPart(variables[i])) ])

\* sorted(positions.keys())
RECURSIVE SortInts(_)
SortInts(s) ==
    IF s = <<>> THEN <<>>
    ELSE LET lo == CHOOSE x \in Range(s) : \A y \in Range(s) : x <= y
         IN  << lo >> \o SortInts(SelectSeq(s, LAMBDA x : x # lo))

\* positions[pos]: the (var, node_id) pairs of a position, in variable order
PositionVars(variables, pos) ==
    LET parsed == [ i \in DOMAIN variables |->
                      [ var |-> variables[i],
                        node_id |-> ParsedNode(variables[i]),
                        pos |-> IntOf(LastPart(variables[i])) ] ]
    IN  SelectSeq(parsed, LAMBDA c : c.pos = pos)

\* Marginal without the linear bias
Marginal_NoLinear(b, var, assigned) ==
    SumSeq([ i \in DOMAIN b.variables |->
               IF b.variables[i] \in assigned /\ b.variables[i] # var
               THEN b.quadratic[{var, b.variables[i]}] ELSE 0 ])

\* linear bias plus the quadratic biases with the variables already set to 1
Marginal(b, var, assigned) ==
    b.linear[var]
    + SumSeq([ i \in DOMAIN b.variables |->
                 IF b.variables[i] \in assigned /\ b.variables[i] # var
                 THEN b.quadratic[{var, b.variables[i]}] ELSE 0 ])

\* the inner loop with "<=": the last of the candidates of lowest marginal
RECURSIVE BestCandidate_LastTie(_, _, _, _, _, _)
BestCandidate_LastTie(b, cands, i, used, assigned, best) ==
    IF i > Len(cands) THEN best
    ELSE IF cands[i].node_id \in used
    THEN BestCandidate_LastTie(b, cands, i + 1, used, assigned, best)
    ELSE LET marginal == Marginal(b, cands[i].var, assigned)
         IN  IF best.marginal.inf \/ marginal <= best.marginal.w
             THEN BestCandidate_LastTie(b, cands, i + 1, used, assigned,
                      [ var |-> Some(cands[i].var), node |-> Some(cands[i].node_id),
                        marginal |-> Fin(marginal) ])
             ELSE BestCandidate_LastTie(b, cands, i + 1, used, assigned, best)

\* the inner loop: the first unused candidate of strictly lowest marginal
RECURSIVE BestCandidate(_, _, _, _, _, _)
BestCandidate(b, cands, i, used, assigned, best) ==
    IF i > Len(cands) THEN best
    ELSE IF cands[i].node_id \in used
    THEN BestCandidate(b, cands, i + 1, used, assigned, best)
    ELSE LET marginal == Marginal(b, cands[i].var, assigned)
         IN  IF best.marginal.inf \/ marginal < best.marginal.w
             THEN BestCandidate(b, cands, i + 1, used, assigned,
                      [ var |-> Some(cands[i].var), node |-> Some(cands[i].node_id),
                        marginal |-> Fin(marginal) ])
             ELSE BestCandidate(b, cands, i + 1, used, assigned, best)

NoBest == [ var |-> None, node |-> None, marginal |-> Inf ]

\* ------------------------------------------------------------ decode_route
\* the loop over sample.items(): route[pos] = node_id, the last write wins;
\* int() of a non-numeric last part raises ValueError
RECURSIVE DecodeLoop(_, _, _, _)
DecodeLoop(smp, n, i, acc) ==
    IF acc.raised \/ i > Len(smp.keys) THEN acc
    ELSE LET key == smp.keys[i]
         IN  IF smp.val[key] = 1 /\ StartsWithX(key)
             THEN IF ~IntOk(LastPart(key))
                  THEN [ acc EXCEPT !.raised = TRUE ]
                  ELSE LET pos == IntOf(LastPart(key))
                       IN  IF 0 <= pos /\ pos < n
                           THEN DecodeLoop(smp, n, i + 1,
                                  [ acc EXCEPT !.route[pos + 1] = Some(ParsedNode(key)) ])
                           ELSE DecodeLoop(smp, n, i + 1, acc)
             ELSE DecodeLoop(smp, n, i + 1, acc)

\* decode_route that never prepends the depot id
decode_route_NoDepot(smp, ids, dep) ==
    LET n == Len(ids)
        acc == DecodeLoop(smp, n, 1, [ raised |-> FALSE, route |-> [ q \in 1..n |-> None ] ])
        kept == SelectSeq(acc.route, LAMBDA e : e # None)
        decoded == [ j \in DOMAIN kept |-> kept[j][1] ]
    IN  IF acc.raised THEN [ raised |-> TRUE, route |-> <<>> ]
        ELSE [ raised |-> FALSE, route |-> decoded ]

\* decode_route that prepends the depot id only to a non-empty route
decode_route_DepotIfAny(smp, ids, dep) ==
    LET n == Len(ids)
        acc == DecodeLoop(smp, n, 1, [ raised |-> FALSE, route |-> [ q \in 1..n |-> None ] ])
        kept == SelectSeq(acc.route, LAMBDA e : e # None)
        decoded == [ j \in DOMAIN kept |-> kept[j][1] ]
    IN  IF acc.raised THEN [ raised |-> TRUE, route |-> <<>> ]
        ELSE [ raised |-> FALSE,
               route |-> IF dep # None /\ decoded # <<>> THEN << dep[1] >> \o decoded
                         ELSE decoded ]

\* decode_route(sample, node_ids, depot_id): [raised, route]
decode_route(smp, ids, dep) ==
    LET n == Len(ids)
        acc == DecodeLoop(smp, n, 1, [ raised |-> FALSE, route |-> [ q \in 1..n |-> None ] ])
        kept == SelectSeq(acc.route, LAMBDA e : e # None)
        decoded == [ j \in DOMAIN kept |-> kept[j][1] ]
    IN  IF acc.raised THEN [ raised |-> TRUE, route |-> <<>> ]
        ELSE [ raised |-> FALSE,
               route |-> IF dep # None THEN << dep[1] >> \o decoded ELSE decoded ]

\* ------------------------------------------------------------ validate_route
\* DeliveryRoute that keeps a leading depot
DeliveryRoute_NoStrip(rt, g) == rt

\* delivery_route = route[1:] if depot and route and route[0] == depot.id else route
DeliveryRoute(rt, g) ==
    LET depot == depot_node(g)
    IN  IF depot # None /\ rt # <<>> /\ rt[1] = depot[1].id THEN Tail(rt) ELSE rt

\* priority_positions: the 0-based indexes of the priority ids in the delivery route
PriorityPositions(rt, g) ==
    LET dr == DeliveryRoute(rt, g)
        pids == Range(Ids(priority_nodes(g)))
    IN  { i - 1 : i \in { j \in DOMAIN dr : dr[j] \in pids } }

\* the priority rule of validate_route once the coverage test has passed
PriorityRule(rt, g) ==
    LET k == Cardinality(Range(Ids(priority_nodes(g))))
        pp == PriorityPositions(rt, g)
    IN  IF pp = {} THEN k = 0
        ELSE (CHOOSE x \in pp : \A y \in pp : y <= x) < k

\* validate_route without the coverage test
validate_route_NoCoverage(rt, g) ==
    LET node_ids == Ids(g.nodes)
    IN  [ feasible |-> Len(rt) = Len(node_ids) /\ Cardinality(Range(rt)) = Len(rt),
          priority_satisfied |-> PriorityRule(rt, g) ]

\* validate_route(route, graph): (feasible, priority_satisfied)
validate_route(rt, g) ==
    LET node_ids == Ids(g.nodes)
    IN  IF Range(rt) # Range(node_ids)
        THEN [ feasible |-> FALSE, priority_satisfied |-> FALSE ]
        ELSE [ feasible |-> Len(rt) = Len(node_ids) /\ Cardinality(Range(rt)) = Len(rt),
               priority_satisfied |-> PriorityRule(rt, g) ]

\* count_priority_violations with "i > k"
count_priority_violations_Strict(rt, g) ==
    LET pids == Range(Ids(priority_nodes(g)))
        k == Cardinality(pids)
        dr == DeliveryRoute(rt, g)
    IN  IF k = 0 THEN 0
        ELSE Cardinality({ j \in DOMAIN dr : dr[j] \in pids /\ j - 1 > k })

\* count_priority_violations(route, graph): priority ids at index >= k of the delivery route
count_priority_violations(rt, g) ==
    LET pids == Range(Ids(priority_nodes(g)))
        k == Cardinality(pids)
        dr == DeliveryRoute(rt, g)
    IN  IF k = 0 THEN 0
        ELSE Cardinality({ j \in DOMAIN dr : dr[j] \in pids /\ j - 1 >= k })

\* ------------------------------------------------------------ inputs
\* the locations a graph is drawn from: ids (one holds the separator) and
\* coordinates on a 3-4-5 grid
NodePool ==
    << [ id |-> << "a" >>,           x |-> 0, y |-> 0 ],
       [ id |-> << "b", "_", "1" >>, x |-> 3, y |-> 0 ],
       [ id |-> << "c" >>,           x |-> 0, y |-> 4 ],
       [ id |-> << "d", "2" >>,      x |-> 3, y |-> 4 ] >>

\* the (distance, traffic) of a drawn connection; the last one is far
EdgeKinds ==
    { [ distance |-> 2,    traffic |-> "low" ],
      [ distance |-> 4,    traffic |-> "medium" ],
      [ distance |-> 6000, traffic |-> "high" ] }

NodeLists(m) ==
    { [ i \in 1..m |-> [ id |-> NodePool[i].id, x |-> NodePool[i].x,
                         y |-> NodePool[i].y, type |-> ty[i] ] ] :
        ty \in [ 1..m -> NodeTypes ] }

MkEdge(f, t, kind) ==
    [ from_node |-> f, to_node |-> t, distance |-> kind.distance, traffic |-> kind.traffic ]

\* one connection between the first two nodes, and possibly a second one
\* (written from the third node to the first); other pairs have none
EdgeLists(m) ==
    { << MkEdge(NodePool[1].id, NodePool[2].id, k1) >> : k1 \in EdgeKinds }
    \cup IF m >= 3
         THEN { << MkEdge(NodePool[1].id, NodePool[2].id, k1),
                   MkEdge(NodePool[3].id, NodePool[1].id, k2) >> :
                  k1 \in EdgeKinds, k2 \in EdgeKinds }
         ELSE {}

MkGraph(nodes, edges) ==
    [ nodes |-> nodes, edges |-> edges, traffic_multipliers |-> DefaultMultipliers2 ]

NodeCounts == { m \in 2..MaxNodes : m <= Len(NodePool) }

\* the graphs CityGraph accepts
Graphs ==
    UNION { { MkGraph(nodes, edges) :
                nodes \in { ns \in NodeLists(m) : GraphAccepted(ns, << 0 >>) },
                edges \in EdgeLists(m) } : m \in NodeCounts }

\* penalty configurations: the defaults and a weak one
ParamSets == { DefaultParams, [ A |-> 3, B |-> 1, Bp |-> 2, C |-> 2 ] }

\* ------------------------------------------------------------ state
VARIABLES
    pc,                 \* where the program is
    graph, params,      \* the caller's CityGraph and QUBOParams
    bqm,                \* the BinaryQuadraticModel of build_qubo
    sample,             \* MockSampler.sample: the sample dict [keys, val]
    used_nodes,         \* MockSampler.sample: used_nodes
    assigned_vars,      \* MockSampler.sample: assigned_vars
    pos_idx,            \* MockSampler.sample: index into sorted(positions.keys())
    energy,             \* the energy of the returned sample
    node_ids, depot_id, \* decode_route's arguments
    route,              \* the decoded (or supplied) route
    raised,             \* an exception left the operation
    feasible, priority_satisfied,   \* validate_route's result
    calls,              \* number of sample calls started
    prev_result,        \* what the previous sample call returned
    args,               \* the arguments of a function called on its own
    ret                 \* what that function returned

vars == << pc, graph, params, bqm, sample, used_nodes, assigned_vars, pos_idx, energy,
           node_ids, depot_id, route, raised, feasible, priority_satisfied, calls,
           prev_result, args, ret >>

\* Largest number of sample calls on one BQM.
MaxCalls == 2

NoSample == [ keys |-> <<>>, val |-> <<>> ]

Blank ==
    /\ bqm = EmptyBQM
    /\ sample = NoSample
    /\ used_nodes = {}
    /\ assigned_vars = {}
    /\ pos_idx = 0
    /\ energy = None
    /\ raised = FALSE
    /\ feasible = None
    /\ priority_satisfied = None
    /\ calls = 0
    /\ prev_result = None

\* no function is called on its own
NoCall == args = None /\ ret = None

\* quantum_solve(graph, params, use_mock=True) is entered
Init ==
    /\ pc = "start"
    /\ graph \in Graphs
    /\ params \in ParamSets
    /\ node_ids = <<>>
    /\ depot_id = None
    /\ route = <<>>
    /\ Blank
    /\ NoCall

\* bqm = build_qubo(graph, params)
BuildQubo ==
    /\ pc = "start"
    /\ bqm' = build_qubo(graph, params)
    /\ pc' = "built"
    /\ UNCHANGED << args, ret, graph, params, sample, used_nodes, assigned_vars, pos_idx, energy,
                    node_ids, depot_id, route, raised, feasible, priority_satisfied,
                    calls, prev_result >>

\* SampleBegin that keeps used_nodes of the earlier call
SampleBegin_KeepUsed ==
    /\ pc \in { "built", "sampled", "decoded", "done" }
    /\ calls < MaxCalls
    /\ prev_result' = IF calls = 0 THEN None ELSE Some([ sample |-> sample, energy |-> energy ])
    /\ calls' = calls + 1
    /\ sample' = [ keys |-> bqm.variables, val |-> [ v \in Range(bqm.variables) |-> 0 ] ]
    /\ assigned_vars' = {}
    /\ pos_idx' = 1
    /\ pc' = "sampling"
    /\ UNCHANGED << args, ret, graph, params, bqm, energy, node_ids, depot_id, route, raised,
                    feasible, priority_satisfied, used_nodes >>

\* sampler.sample(bqm) is entered: fresh locals
SampleBegin ==
    /\ pc \in { "built", "sampled", "decoded", "done" }
    /\ calls < MaxCalls
    /\ prev_result' = IF calls = 0 THEN None ELSE Some([ sample |-> sample, energy |-> energy ])
    /\ calls' = calls + 1
    /\ sample' = [ keys |-> bqm.variables, val |-> [ v \in Range(bqm.variables) |-> 0 ] ]
    /\ used_nodes' = {}
    /\ assigned_vars' = {}
    /\ pos_idx' = 1
    /\ pc' = "sampling"
    /\ UNCHANGED << args, ret, graph, params, bqm, energy, node_ids, depot_id, route, raised,
                    feasible, priority_satisfied >>

SortedPositions == SortInts(PositionKeys(bqm.variables))

\* SampleStep that never marks the chosen node used
SampleStep_NoUsed ==
    /\ pc = "sampling"
    /\ pos_idx <= Len(SortedPositions)
    /\ LET pos == SortedPositions[pos_idx]
           best == BestCandidate(bqm, PositionVars(bqm.variables, pos), 1,
                                 used_nodes, assigned_vars, NoBest)
       IN  IF best.var # None
           THEN /\ sample' = [ sample EXCEPT !.val[best.var[1]] = 1 ]
                /\ assigned_vars' = assigned_vars \cup { best.var[1] }
           ELSE UNCHANGED << sample, assigned_vars >>
    /\ pos_idx' = pos_idx + 1
    /\ UNCHANGED << args, ret, pc, graph, params, bqm, energy, node_ids, depot_id, route, raised,
                    feasible, priority_satisfied, calls, prev_result, used_nodes >>

\* one iteration of "for pos in sorted(positions.keys())"
SampleStep ==
    /\ pc = "sampling"
    /\ pos_idx <= Len(SortedPositions)
    /\ LET pos == SortedPositions[pos_idx]
           best == BestCandidate(bqm, PositionVars(bqm.variables, pos), 1,
                                 used_nodes, assigned_vars, NoBest)
       IN  IF best.var # None
           THEN /\ sample' = [ sample EXCEPT !.val[best.var[1]] = 1 ]
                /\ used_nodes' = used_nodes \cup { best.node[1] }
                /\ assigned_vars' = assigned_vars \cup { best.var[1] }
           ELSE UNCHANGED << sample, used_nodes, assigned_vars >>
    /\ pos_idx' = pos_idx + 1
    /\ UNCHANGED << args, ret, pc, graph, params, bqm, energy, node_ids, depot_id, route, raised,
                    feasible, priority_satisfied, calls, prev_result >>

\* energy = bqm.energy(sample); the SampleSet is returned
SampleEnd ==
    /\ pc = "sampling"
    /\ pos_idx > Len(SortedPositions)
    /\ energy' = Some(Energy(bqm, sample.val))
    /\ pc' = "sampled"
    /\ UNCHANGED << args, ret, graph, params, bqm, sample, used_nodes, assigned_vars, pos_idx,
                    node_ids, depot_id, route, raised, feasible, priority_satisfied,
                    calls, prev_result >>

\* route = decode_route(best.sample, node_ids, depot_id=depot.id if depot else None)
Decode ==
    /\ pc = "sampled"
    /\ LET depot == depot_node(graph)
           ids == DeliveryIds(graph)
           dep == IF depot # None THEN Some(depot[1].id) ELSE None
           res == decode_route(sample, ids, dep)
       IN  /\ node_ids' = ids
           /\ depot_id' = dep
           /\ route' = res.route
           /\ raised' = res.raised
    /\ pc' = "decoded"
    /\ UNCHANGED << args, ret, graph, params, bqm, sample, used_nodes, assigned_vars, pos_idx, energy,
                    feasible, priority_satisfied, calls, prev_result >>

\* feasible, priority_satisfied = validate_route(route, graph); the response is built
Validate ==
    /\ pc = "decoded"
    /\ ~raised
    /\ LET res == validate_route(route, graph)
       IN  /\ feasible' = Some(res.feasible)
           /\ priority_satisfied' = Some(res.priority_satisfied)
    /\ pc' = "done"
    /\ UNCHANGED << args, ret, graph, params, bqm, sample, used_nodes, assigned_vars, pos_idx, energy,
                    node_ids, depot_id, route, raised, calls, prev_result >>

Next ==
    \/ BuildQubo
    \/ SampleBegin
    \/ SampleStep
    \/ SampleEnd
    \/ Decode
    \/ Validate

Spec == Init /\ [][Next]_vars

\* ------------------------------------------------------------ properties of quantum_solve
\* number of non-depot nodes of the graph
NumDelivery == Cardinality({ i \in DOMAIN graph.nodes : graph.nodes[i].type # DEPOT })

\* ids of the priority nodes of the graph
PrioritySet == { graph.nodes[i].id : i \in { j \in DOMAIN graph.nodes : graph.nodes[j].type = PRIORITY } }

\* ids of the depot nodes of the graph (at most one)
DepotSet == { graph.nodes[i].id : i \in { j \in DOMAIN graph.nodes : graph.nodes[j].type = DEPOT } }

AllIds == { graph.nodes[i].id : i \in DOMAIN graph.nodes }

\* the route without a leading depot
Stripped(rt) == IF rt # <<>> /\ rt[1] \in DepotSet THEN Tail(rt) ELSE rt

\* the ids in the first k entries of a sequence
FirstK(rt, k) == { rt[i] : i \in { j \in DOMAIN rt : j <= k } }

\* every traffic-weighted weight between two nodes of the graph
AllWeights == { get_edge_weight(graph, a, b).w : a \in AllIds, b \in AllIds }

\* C1: the route of quantum_solve with the mock sampler holds every node of the
\* graph exactly once, is as long as the node count, starts with the depot if
\* there is one, and is reported feasible.
C1_RouteComplete ==
    pc = "done" =>
        /\ Range(route) = AllIds
        /\ Len(route) = Len(graph.nodes)
        /\ NoDuplicates(route)
        /\ \A d \in DepotSet : route[1] = d
        /\ feasible = Some(TRUE)

C1_Witness ==
    /\ pc = "done"
    /\ DepotSet # {}
    /\ NumDelivery >= 2
    /\ feasible = Some(TRUE)

\* C2 as claimed: with the default penalties and k >= 1 priority nodes, the first
\* k delivery positions of the route hold exactly the priority nodes and
\* priority_satisfied is true, for every graph.
C2_Original ==
    (pc = "done" /\ params = DefaultParams /\ PrioritySet # {}) =>
        /\ FirstK(Stripped(route), Cardinality(PrioritySet)) = PrioritySet
        /\ priority_satisfied = Some(TRUE)

\* C2 amended: the same, for the graphs whose traffic-weighted weights
\* (connections and Euclidean fallbacks) are all below 2*Bp + B = 2500.
C2_PriorityFirst ==
    (/\ pc = "done"
     /\ params = DefaultParams
     /\ PrioritySet # {}
     /\ \A w \in AllWeights : w < 2 * DefaultParams.Bp + DefaultParams.B) =>
        /\ FirstK(Stripped(route), Cardinality(PrioritySet)) = PrioritySet
        /\ priority_satisfied = Some(TRUE)

C2_Witness ==
    /\ pc = "done"
    /\ params = DefaultParams
    /\ PrioritySet # {}
    /\ Cardinality(PrioritySet) < NumDelivery
    /\ \A w \in AllWeights : w < 2 * DefaultParams.Bp + DefaultParams.B
    /\ \E w \in AllWeights : w > 2
    /\ priority_satisfied = Some(TRUE)

\* the delivery ids of the graph, in node order
DeliverySeq == SelectSeq(Ids(graph.nodes), LAMBDA d : d \notin DepotSet)

Ones(vs) == { v \in vs : sample.val[v] = 1 }

\* C3: the assignment the greedy sampler returns for the BQM of encode sets
\* exactly one variable per position and exactly one per node: n ones, a permutation.
C3_SamplePermutation ==
    pc = "sampled" =>
        LET n == NumDelivery
        IN  /\ \A q \in 0..(n - 1) :
                 Cardinality(Ones({ Var(DeliverySeq[i], q) : i \in 1..n })) = 1
            /\ \A i \in 1..n :
                 Cardinality(Ones({ Var(DeliverySeq[i], q) : q \in 0..(n - 1) })) = 1
            /\ Cardinality(Ones(DOMAIN sample.val)) = n

C3_Witness ==
    /\ pc = "sampled"
    /\ NumDelivery >= 3
    /\ Cardinality(Ones(DOMAIN sample.val)) = NumDelivery

\* C5: a second run of sample on the same BQM, whatever the program did in
\* between, returns the same assignment and the same energy as the first.
C5_Deterministic ==
    (pc = "sampled" /\ calls >= 2) =>
        prev_result = Some([ sample |-> sample, energy |-> energy ])

C5_Witness ==
    /\ pc = "sampled"
    /\ calls >= 2
    /\ NumDelivery >= 2
    /\ route # <<>>

\* C6: encode creates exactly n*n variables, one per (delivery node, position)
\* with position in [0, n), n the number of non-depot nodes; none is named
\* after the depot.
C6_Variables ==
    pc = "built" =>
        LET n == NumDelivery
        IN  /\ Len(bqm.variables) = n * n
            /\ NoDuplicates(bqm.variables)
            /\ Range(bqm.variables) = { Var(DeliverySeq[i], q) : i \in 1..n, q \in 0..(n - 1) }
            /\ \A d \in DepotSet : \A v \in Range(bqm.variables) :
                 /\ ParsedNode(v) # d
                 /\ ~StartsWith(v, << "x", "_" >> \o d \o << "_" >>)

C6_Witness ==
    /\ pc = "built"
    /\ DepotSet # {}
    /\ Len(bqm.variables) = 4

\* ------------------------------------------------------------ greedy_solve
\* node_map[node_id]: the last node of that id
node_map(g, node_id) ==
    LET hits == SelectSeq(g.nodes, LAMBDA nd : nd.id = node_id)
    IN  hits[Len(hits)]

\* euclidean_distance
euclidean_distance(x1, y1, x2, y2) == Sqrt((x2 - x1) * (x2 - x1) + (y2 - y1) * (y2 - y1))

\* greedy_solve.get_weighted_distance: (base distance, traffic-weighted time)
get_weighted_distance(g, from_id, to_id) ==
    LET hits == SelectSeq(g.edges, LAMBDA e : EdgeMatches(e, from_id, to_id))
        n1 == node_map(g, from_id)
        n2 == node_map(g, to_id)
        d == euclidean_distance(n1.x, n1.y, n2.x, n2.y)
    IN  IF hits # <<>>
        THEN [ dist |-> hits[1].distance,
               weighted |-> (hits[1].distance * Multiplier2(g, hits[1].traffic)) \div 2 ]
        ELSE [ dist |-> d, weighted |-> d ]

\* the loop of find_nearest: a candidate replaces the best one only when
\* strictly nearer, so the first of several nearest candidates is kept
RECURSIVE NearestLoop(_, _, _, _, _)
NearestLoop(g, current_id, candidates, i, best) ==
    IF i > Len(candidates) THEN best.id
    ELSE LET weighted_time == get_weighted_distance(g, current_id, candidates[i].id).weighted
         IN  IF best.time.inf \/ weighted_time < best.time.w
             THEN NearestLoop(g, current_id, candidates, i + 1,
                              [ id |-> Some(candidates[i].id), time |-> Fin(weighted_time) ])
             ELSE NearestLoop(g, current_id, candidates, i + 1, best)

\* greedy_solve.find_nearest: the id of the nearest candidate, or None
find_nearest(g, current_id, candidates) ==
    IF candidates = <<>> THEN None
    ELSE NearestLoop(g, current_id, candidates, 1, [ id |-> None, time |-> Inf ])

\* "if nearest_id:" -- None and the empty string are false
Truthy(nearest_id) == nearest_id # None /\ nearest_id[1] # <<>>

\* one "while unvisited:" loop of greedy_solve; without a nearest id the
\* second loop breaks and the first one never ends
RECURSIVE VisitLoop(_, _, _, _)
VisitLoop(g, unvisited, acc, breaks) ==
    IF unvisited = <<>> THEN acc
    ELSE LET nearest_id == find_nearest(g, acc.current[1], unvisited)
         IN  IF Truthy(nearest_id)
             THEN LET leg == get_weighted_distance(g, acc.current[1], nearest_id[1])
                  IN  VisitLoop(g, SelectSeq(unvisited, LAMBDA nd : nd.id # nearest_id[1]),
                                [ acc EXCEPT !.total_distance = @ + leg.dist,
                                             !.travel_time = @ + leg.weighted,
                                             !.route = Append(@, nearest_id[1]),
                                             !.current = nearest_id ],
                                breaks)
             ELSE IF breaks THEN acc
             ELSE [ acc EXCEPT !.hangs = TRUE ]

\* greedy_solve that visits every node in one nearest-neighbour loop
greedy_solve_OnePhase(g) ==
    LET rest == Tail(g.nodes)
        done == VisitLoop(g, rest,
                          [ current |-> Some(g.nodes[1].id), route |-> << g.nodes[1].id >>,
                            total_distance |-> 0, travel_time |-> 0, hangs |-> FALSE ], TRUE)
        priority_ids == { nd.id : nd \in Range(priority_nodes(g)) }
        k == Cardinality(priority_ids)
        priority_positions == { i - 1 : i \in { j \in DOMAIN done.route : done.route[j] \in priority_ids } }
    IN  [ hangs |-> FALSE, route |-> done.route,
          total_distance |-> done.total_distance, travel_time |-> done.travel_time,
          feasible |-> Len(done.route) = Len(g.nodes) /\ NoDuplicates(done.route),
          priority_satisfied |-> IF k > 0
                                 THEN priority_positions # {}
                                      /\ \A q \in priority_positions : q < k
                                 ELSE TRUE,
          energy |-> None, solver_used |-> "greedy" ]

\* greedy_solve(graph): the SolverResponse, or hangs
greedy_solve(g) ==
    LET prio == SelectSeq(g.nodes, LAMBDA nd : nd.type = PRIORITY)
        norm == SelectSeq(g.nodes, LAMBDA nd : nd.type = NORMAL)
        start == [ current |-> None, route |-> <<>>, total_distance |-> 0,
                   travel_time |-> 0, hangs |-> FALSE ]
        phase1 == IF prio # <<>>
                  THEN VisitLoop(g, Tail(prio),
                                 [ start EXCEPT !.current = Some(prio[1].id),
                                                !.route = << prio[1].id >> ], FALSE)
                  ELSE IF norm # <<>>
                  THEN [ start EXCEPT !.current = Some(norm[1].id),
                                      !.route = << norm[1].id >> ]
                  ELSE start
        unvisited_normal == IF prio # <<>> THEN norm
                            ELSE IF norm # <<>> THEN Tail(norm) ELSE <<>>
        phase2 == IF phase1.hangs THEN phase1
                  ELSE VisitLoop(g, unvisited_normal, phase1, TRUE)
        priority_ids == { nd.id : nd \in Range(prio) }
        k == Cardinality(priority_ids)
        priority_positions == { i - 1 : i \in { j \in DOMAIN phase2.route : phase2.route[j] \in priority_ids } }
    IN  [ hangs |-> phase2.hangs, route |-> phase2.route,
          total_distance |-> phase2.total_distance, travel_time |-> phase2.travel_time,
          feasible |-> Len(phase2.route) = Len(g.nodes) /\ NoDuplicates(phase2.route),
          priority_satisfied |-> IF k > 0
                                 THEN priority_positions # {}
                                      /\ \A q \in priority_positions : q < k
                                 ELSE TRUE,
          energy |-> None, solver_used |-> "greedy" ]

\* greedy_solve(graph) is entered
InitGreedy ==
    /\ pc = "start"
    /\ graph \in Graphs
    /\ params = DefaultParams
    /\ node_ids = <<>>
    /\ depot_id = None
    /\ route = <<>>
    /\ Blank
    /\ NoCall

\* result = greedy_solve(graph)
GreedySolve ==
    /\ pc = "start"
    /\ ret = None
    /\ LET res == greedy_solve(graph)
       IN  /\ ret' = res
           /\ pc' = IF res.hangs THEN "greedy_hangs" ELSE "greedy_done"
    /\ UNCHANGED << args, graph, params, bqm, sample, used_nodes, assigned_vars, pos_idx,
                    energy, node_ids, depot_id, route, raised, feasible,
                    priority_satisfied, calls, prev_result >>

NextGreedy == GreedySolve

SpecGreedy == InitGreedy /\ [][NextGreedy]_vars

\* the nodes of the graph not among the first i entries of a route, in graph order
UnvisitedAfter(rt, i) ==
    SelectSeq(graph.nodes, LAMBDA nd : nd.id \notin { rt[j] : j \in 1..i })

\* the traffic-weighted cost from the i-th entry of a route to a node
CostFrom(rt, i, nd) == get_weighted_distance(graph, rt[i], nd.id).weighted

\* the first node of least cost from the i-th entry among all unvisited nodes
NearestOverall(rt, i) ==
    LET cands == UnvisitedAfter(rt, i)
        best == CHOOSE c \in DOMAIN cands :
                  /\ \A d \in DOMAIN cands : CostFrom(rt, i, cands[c]) <= CostFrom(rt, i, cands[d])
                  /\ \A d \in 1..(c - 1) : CostFrom(rt, i, cands[d]) > CostFrom(rt, i, cands[c])
    IN  cands[best].id

\* C13: every appended node is the first node of least traffic-weighted cost
\* from the current node among all unvisited nodes, whatever their class.
C13_NearestOverall ==
    pc = "greedy_done" =>
        \A i \in 1..(Len(ret.route) - 1) : ret.route[i + 1] = NearestOverall(ret.route, i)

\* the ids of the normal nodes
NormalSet == { graph.nodes[i].id : i \in { j \in DOMAIN graph.nodes : graph.nodes[j].type = NORMAL } }

\* C14: the route of greedy_solve has every priority node before every normal
\* node, and its priority_satisfied flag is true.
C14_GreedyPriorityFirst ==
    pc = "greedy_done" =>
        /\ \A i \in DOMAIN ret.route : \A j \in DOMAIN ret.route :
             (ret.route[i] \in PrioritySet /\ ret.route[j] \in NormalSet) => i < j
        /\ ret.priority_satisfied

C14_Witness ==
    /\ pc = "greedy_done"
    /\ Cardinality(PrioritySet) = 2
    /\ Cardinality(NormalSet) = 1
    /\ Len(ret.route) = 3
    /\ NearestOverall(ret.route, 1) \in NormalSet
    /\ ret.route[2] \in PrioritySet
    /\ ret.priority_satisfied

\* C15: the route of greedy_solve holds every node of the graph exactly once
\* and is reported feasible.
C15_GreedyFeasible ==
    pc = "greedy_done" =>
        /\ Range(ret.route) = AllIds
        /\ NoDuplicates(ret.route)
        /\ ret.feasible

\* the depot id a SolverResponse carries, None when it carries none
ResultDepotId(res) == IF "depot_id" \in DOMAIN res THEN res.depot_id ELSE None

\* C16: with a depot the route starts at the depot, holds every node exactly
\* once and the result carries the depot id; without a depot it carries none.
C16_GreedyDepot ==
    pc = "greedy_done" =>
        IF DepotSet # {}
        THEN /\ ret.route # <<>>
             /\ ret.route[1] \in DepotSet
             /\ Range(ret.route) = AllIds
             /\ NoDuplicates(ret.route)
             /\ ResultDepotId(ret) # None
             /\ ResultDepotId(ret)[1] \in DepotSet
        ELSE ResultDepotId(ret) = None

\* ------------------------------------------------------------ validate_route on any route
\* an id that is no location of any drawn graph
UnknownId == << "z" >>

\* the graphs validate_route is called with: every accepted typing of the nodes
ValidateGraphs ==
    UNION { { MkGraph(nodes, << MkEdge(NodePool[1].id, NodePool[2].id,
                                       [ distance |-> 2, traffic |-> "low" ]) >>) :
                nodes \in { ns \in NodeLists(m) : GraphAccepted(ns, << 0 >>) } } :
            m \in NodeCounts }

\* the routes validate_route is called with: up to one entry more than the
\* graph has nodes, over the graph's ids and an unknown id
Routes(g) ==
    UNION { [ 1..len -> Range(Ids(g.nodes)) \cup { UnknownId } ] : len \in 0..(Len(g.nodes) + 1) }

InitValidate ==
    /\ pc = "validate_in"
    /\ graph \in ValidateGraphs
    /\ params = DefaultParams
    /\ route \in Routes(graph)
    /\ node_ids = <<>>
    /\ depot_id = None
    /\ Blank
    /\ NoCall

\* feasible, priority_satisfied = validate_route(route, graph)
ValidateCall ==
    /\ pc = "validate_in"
    /\ LET res == validate_route(route, graph)
       IN  /\ feasible' = Some(res.feasible)
           /\ priority_satisfied' = Some(res.priority_satisfied)
    /\ pc' = "validated"
    /\ UNCHANGED << args, ret, graph, params, bqm, sample, used_nodes, assigned_vars, pos_idx, energy,
                    node_ids, depot_id, route, raised, calls, prev_result >>

NextValidate == ValidateCall

SpecValidate == InitValidate /\ [][NextValidate]_vars

\* C7: validate reports feasible exactly when the ids of the route are the
\* node ids of the graph and no entry repeats.
C7_Feasible ==
    pc = "validated" =>
        (feasible = Some(TRUE) <=> (Range(route) = AllIds /\ NoDuplicates(route)))

C7_Witness ==
    /\ pc = "validated"
    /\ Range(route) = AllIds
    /\ ~NoDuplicates(route)
    /\ feasible = Some(FALSE)

\* C8: for a feasible route, priority_satisfied is true exactly when the first
\* k entries after a leading depot are the k priority ids (always when k = 0).
C8_PriorityIff ==
    (pc = "validated" /\ feasible = Some(TRUE)) =>
        (priority_satisfied = Some(TRUE)
           <=> FirstK(Stripped(route), Cardinality(PrioritySet)) = PrioritySet)

C8_Witness ==
    /\ pc = "validated"
    /\ feasible = Some(TRUE)
    /\ DepotSet # {}
    /\ route[1] \in DepotSet
    /\ Cardinality(PrioritySet) = 1
    /\ NumDelivery >= 2
    /\ priority_satisfied = Some(TRUE)

\* the 0-based indexes of priority ids in the depot-stripped route
PriorityIndexes == { i - 1 : i \in { j \in DOMAIN Stripped(route) : Stripped(route)[j] \in PrioritySet } }

\* C9: priority_satisfied follows the rule "k = 0 and no priority node appears,
\* or the largest index of a priority node in the depot-stripped route is < k"
\* for every route, feasible or not.
C9_Independent ==
    pc = "validated" =>
        (priority_satisfied = Some(TRUE)
           <=> \/ (PrioritySet = {} /\ PriorityIndexes = {})
               \/ (PriorityIndexes # {}
                   /\ \A x \in PriorityIndexes : x < Cardinality(PrioritySet)))

\* ------------------------------------------------------------ decode_route on any assignment
\* the delivery id lists decode_route is called with
DecodeIdLists ==
    { [ i \in 1..n |-> NodePool[i].id ] : n \in { k \in 1..MaxDecode : k <= Len(NodePool) } }

\* the depot ids decode_route is called with
DecodeDepots == { None, Some(<< "D", "0" >>) }

\* the keys of a drawn sample: x_<id>_<p> for every id and every position
\* 0..n (position n is outside [0, n))
SampleKeys(ids) ==
    LET n == Len(ids)
    IN  Flatten([ i \in 1..n |-> [ q \in 1..(n + 1) |-> Var(ids[i], q - 1) ] ])

Reverse(s) == [ i \in DOMAIN s |-> s[Len(s) + 1 - i] ]

\* the drawn samples: every 0/1 assignment, keys in either insertion order
Samples(ids) ==
    { [ keys |-> ks, val |-> vl ] :
        ks \in { SampleKeys(ids), Reverse(SampleKeys(ids)) },
        vl \in [ Range(SampleKeys(ids)) -> { 0, 1 } ] }

\* decode_route takes no graph
NoGraph == MkGraph(<<>>, <<>>)

InitDecode ==
    /\ pc = "decode_in"
    /\ graph = NoGraph
    /\ params = DefaultParams
    /\ node_ids \in DecodeIdLists
    /\ depot_id \in DecodeDepots
    /\ route = <<>>
    /\ bqm = EmptyBQM
    /\ sample \in Samples(node_ids)
    /\ used_nodes = {}
    /\ assigned_vars = {}
    /\ pos_idx = 0
    /\ energy = None
    /\ raised = FALSE
    /\ feasible = None
    /\ priority_satisfied = None
    /\ calls = 0
    /\ prev_result = None
    /\ args = None
    /\ ret = None

\* route = decode_route(sample, node_ids, depot_id)
DecodeCall ==
    /\ pc = "decode_in"
    /\ LET res == decode_route(sample, node_ids, depot_id)
       IN  /\ route' = res.route
           /\ raised' = res.raised
    /\ pc' = "decode_out"
    /\ UNCHANGED << args, ret, graph, params, bqm, sample, used_nodes, assigned_vars, pos_idx, energy,
                    node_ids, depot_id, feasible, priority_satisfied, calls, prev_result >>

NextDecode == DecodeCall

SpecDecode == InitDecode /\ [][NextDecode]_vars

\* the ids whose variable at position q is 1 in the sample
OnesAt(q) ==
    { d \in Range(node_ids) :
        Var(d, q) \in Range(sample.keys) /\ sample.val[Var(d, q)] = 1 }

\* the positions of [0, n) that hold a 1-valued variable
Occupied == { q \in 0..(Len(node_ids) - 1) : OnesAt(q) # {} }

\* the j-th occupied position, ascending
OccupiedAt(j) == CHOOSE q \in Occupied : Cardinality({ r \in Occupied : r < q }) = j - 1

\* the route without the prepended depot id
Body == IF depot_id # None THEN Tail(route) ELSE route

\* C10: decode returns the nodes of the 1-valued variables in ascending position
\* order, leaves out the positions of [0, n) without a 1-valued variable, and
\* puts depot_id first whenever one is supplied, even when no variable is 1.
C10_Decode ==
    (pc = "decode_out" /\ ~raised) =>
        /\ depot_id # None => (route # <<>> /\ route[1] = depot_id[1])
        /\ Len(Body) = Cardinality(Occupied)
        /\ \A j \in 1..Len(Body) : Body[j] \in OnesAt(OccupiedAt(j))

C10_Witness ==
    /\ pc = "decode_out"
    /\ ~raised
    /\ depot_id # None
    /\ Len(node_ids) = 2
    /\ Occupied = { 1 }
    /\ Len(route) = 2

\* ------------------------------------------------------------ decode, then rebuild the names
\* the 1-valued variables of the sample
OneValued == { key \in Range(sample.keys) : sample.val[key] = 1 }

\* the assignment is a permutation: n ones, one per position of [0, n) and one per node
IsPermutation ==
    LET n == Len(node_ids)
    IN  /\ Cardinality(OneValued) = n
        /\ \A q \in 0..(n - 1) : Cardinality(OnesAt(q)) = 1
        /\ \A d \in Range(node_ids) :
             Cardinality({ q \in 0..(n - 1) : d \in OnesAt(q) }) = 1

\* the variables x_<route[p]>_<p> rebuilt from the decoded route without its depot
Rebuilt == { Var(Body[j], j - 1) : j \in 1..Len(Body) }

\* C11: for an assignment that is a permutation, the variables rebuilt from the
\* decoded route (depot left out) are exactly the 1-valued variables.
C11_RoundTrip ==
    (pc = "decode_out" /\ IsPermutation) => (~raised /\ Rebuilt = OneValued)

C11_Witness ==
    /\ pc = "decode_out"
    /\ IsPermutation
    /\ depot_id # None
    /\ Len(node_ids) = 2
    /\ Body = << NodePool[2].id, NodePool[1].id >>
    /\ Rebuilt = OneValued


\* ------------------------------------------------------------ variable names
\* Largest position a name is built for (two digits are reached).
MaxPos == 11

\* node ids a name is built for: with and without the separator, with digits
NameIds ==
    { << "a" >>, << "b", "_", "1" >>, << "a", "_", "1" >>, << "_" >>, << "a", "_" >>,
      << "_", "a" >>, << "1" >>, << "1", "_", "0" >>, << "a", "_", "_", "b" >> }

\* the (node id, position) pairs a name is built for
NamePairs == [ node_id : NameIds, pos : 0..MaxPos ]

\* what decode_route recovers from one 1-valued variable: the node id placed
\* in a route of pos + 1 slots, and whether a route of pos slots takes it
DecodeParse(name, len) ==
    LET smp == [ keys |-> << name >>, val |-> [ k \in { name } |-> 1 ] ]
        ids == [ i \in 1..len |-> << "n" >> \o Str(i) ]
    IN  decode_route(smp, ids, None)

\* what MockSampler.sample recovers from one variable: positions dict of one key
SamplerParse(name) ==
    IF ~IntOk(LastPart(name)) THEN [ raised |-> TRUE, keys |-> <<>>, entries |-> <<>> ]
    ELSE [ raised |-> FALSE,
           keys |-> PositionKeys(<< name >>),
           entries |-> PositionVars(<< name >>, PositionKeys(<< name >>)[1]) ]

InitNames ==
    /\ pc = "name_in"
    /\ graph = NoGraph
    /\ params = DefaultParams
    /\ node_ids = <<>>
    /\ depot_id = None
    /\ route = <<>>
    /\ Blank
    /\ args \in [ one : NamePairs, other : NamePairs ]
    /\ ret = None

\* name = var(node_id, pos) for both pairs, then parsed as decode_route and
\* MockSampler.sample parse it
NameCall ==
    /\ pc = "name_in"
    /\ LET name == Var(args.one.node_id, args.one.pos)
       IN  ret' = [ name |-> name,
                    other_name |-> Var(args.other.node_id, args.other.pos),
                    decode_fit |-> DecodeParse(name, args.one.pos + 1),
                    decode_short |-> DecodeParse(name, args.one.pos),
                    sampler |-> SamplerParse(name) ]
    /\ pc' = "name_out"
    /\ UNCHANGED << args, graph, params, bqm, sample, used_nodes, assigned_vars, pos_idx,
                    energy, node_ids, depot_id, route, raised, feasible,
                    priority_satisfied, calls, prev_result >>

NextNames == NameCall

SpecNames == InitNames /\ [][NextNames]_vars

\* C12: decode and the greedy sampler recover the (node id, position) pair a
\* name was built from, also for ids that contain the separator, and two
\* different pairs never get the same name.
C12_NameParse ==
    pc = "name_out" =>
        /\ ~ret.decode_fit.raised
        /\ ret.decode_fit.route = << args.one.node_id >>
        /\ ret.decode_short.route = <<>>
        /\ ~ret.sampler.raised
        /\ ret.sampler.keys = << args.one.pos >>
        /\ Len(ret.sampler.entries) = 1
        /\ ret.sampler.entries[1].node_id = args.one.node_id
        /\ (args.one # args.other => ret.name # ret.other_name)

C12_Witness ==
    /\ pc = "name_out"
    /\ args.one = [ node_id |-> << "1", "_", "0" >>, pos |-> 10 ]
    /\ args.other = [ node_id |-> << "1" >>, pos |-> 0 ]
    /\ ret.decode_fit.route = << << "1", "_", "0" >> >>
    /\ ret.sampler.keys = << 10 >>


\* ------------------------------------------------------------ get_edge_weight on any id pair
\* graphs whose connections may mention an id that is no location: Edge and
\* CityGraph do not look the ids of a connection up
DanglingGraphs ==
    UNION { { MkGraph(nodes, edges) :
                nodes \in { ns \in NodeLists(m) : GraphAccepted(ns, << 0 >>) },
                edges \in { << MkEdge(NodePool[1].id, NodePool[2].id, k) >> : k \in EdgeKinds }
                          \cup { << MkEdge(NodePool[1].id, NodePool[2].id, k),
                                    MkEdge(UnknownId, NodePool[1].id, k) >> : k \in EdgeKinds } } :
            m \in NodeCounts }

InitWeight ==
    /\ pc = "weight_in"
    /\ graph \in DanglingGraphs
    /\ params = DefaultParams
    /\ node_ids = <<>>
    /\ depot_id = None
    /\ route = <<>>
    /\ Blank
    /\ args \in [ from_id : Range(Ids(graph.nodes)) \cup { UnknownId },
                  to_id : Range(Ids(graph.nodes)) \cup { UnknownId } ]
    /\ ret = None

\* weight = graph.get_edge_weight(from_id, to_id)
GetEdgeWeight ==
    /\ pc = "weight_in"
    /\ ret' = get_edge_weight(graph, args.from_id, args.to_id)
    /\ pc' = "weight_out"
    /\ UNCHANGED << args, graph, params, bqm, sample, used_nodes, assigned_vars, pos_idx,
                    energy, node_ids, depot_id, route, raised, feasible,
                    priority_satisfied, calls, prev_result >>

NextWeight == GetEdgeWeight

SpecWeight == InitWeight /\ [][NextWeight]_vars

\* C17: the weight is the 'no edge' value whenever one of the two ids is no
\* location of the graph, even if a connection mentions that id.
C17_UnknownIsNoEdge ==
    pc = "weight_out" =>
        ((args.from_id \notin AllIds \/ args.to_id \notin AllIds) => ret = Inf)


\* ------------------------------------------------------------ metrics: compare
\* Largest total_distance and travel_time of a compared result.
MaxMetric == 10

RECURSIVE Gcd(_, _)
Gcd(a, b) == IF b = 0 THEN a ELSE Gcd(b, a % b)

Abs(x) == IF x < 0 THEN 0 - x ELSE x

\* the number n / d (d # 0) in lowest terms, the denominator positive
Rat(n, d) ==
    LET g == Gcd(Abs(n), Abs(d))
        sn == IF d < 0 THEN 0 - n ELSE n
    IN  [ num |-> sn \div g, den |-> Abs(d) \div g ]

\* a / b: ZeroDivisionError when b is 0
Divide(a, b) ==
    IF b = 0 THEN [ raised |-> TRUE, value |-> Rat(0, 1) ]
    ELSE [ raised |-> FALSE, value |-> Rat(a, b) ]

\* r * 100
Times100(r) ==
    IF r.raised THEN r
    ELSE [ raised |-> FALSE, value |-> Rat(r.value.num * 100, r.value.den) ]

\* the literal 0.0
Zero == [ raised |-> FALSE, value |-> Rat(0, 1) ]

\* compute_distance_reduction without the test for a zero distance
compute_distance_reduction_NoGuard(greedy, quantum) ==
    Times100(Divide(greedy.total_distance - quantum.total_distance, greedy.total_distance))

\* metrics.compute_distance_reduction
compute_distance_reduction(greedy, quantum) ==
    IF greedy.total_distance = 0 THEN Zero
    ELSE Times100(Divide(greedy.total_distance - quantum.total_distance,
                         greedy.total_distance))

\* metrics.compute_time_reduction
compute_time_reduction(greedy, quantum) ==
    IF greedy.travel_time = 0 THEN Zero
    ELSE Times100(Divide(greedy.travel_time - quantum.travel_time, greedy.travel_time))

\* metrics_advanced.compare_solutions: the two reduction percentages
compare_solutions(quantum_result, greedy_result) ==
    [ distance_reduction_pct |->
        IF greedy_result.total_distance > 0
        THEN Times100(Divide(greedy_result.total_distance - quantum_result.total_distance,
                             greedy_result.total_distance))
        ELSE Zero,
      time_reduction_pct |->
        IF greedy_result.travel_time > 0
        THEN Times100(Divide(greedy_result.travel_time - quantum_result.travel_time,
                             greedy_result.travel_time))
        ELSE Zero ]

\* the results compared: distances and times of solved routes, never negative
SolvedResults == [ total_distance : 0..MaxMetric, travel_time : 0..MaxMetric ]

InitCompare ==
    /\ pc = "compare_in"
    /\ graph = NoGraph
    /\ params = DefaultParams
    /\ node_ids = <<>>
    /\ depot_id = None
    /\ route = <<>>
    /\ Blank
    /\ args \in [ greedy : SolvedResults, quantum : SolvedResults ]
    /\ ret = None

\* the reductions of quantum against greedy, by metrics and by metrics_advanced
CompareCall ==
    /\ pc = "compare_in"
    /\ ret' = [ distance |-> compute_distance_reduction(args.greedy, args.quantum),
                time |-> compute_time_reduction(args.greedy, args.quantum),
                advanced |-> compare_solutions(args.quantum, args.greedy) ]
    /\ pc' = "compare_out"
    /\ UNCHANGED << args, graph, params, bqm, sample, used_nodes, assigned_vars, pos_idx,
                    energy, node_ids, depot_id, route, raised, feasible,
                    priority_satisfied, calls, prev_result >>

NextCompare == CompareCall

SpecCompare == InitCompare /\ [][NextCompare]_vars

\* r is (baseline - candidate) / baseline * 100, or exactly 0 for a zero
\* baseline, and no division by zero was made
IsReduction(r, baseline, candidate) ==
    /\ ~r.raised
    /\ r.value.den > 0
    /\ IF baseline = 0 THEN r.value.num = 0
       ELSE r.value.num * baseline = (baseline - candidate) * 100 * r.value.den

\* C18: the distance and time reduction percentages are
\* (baseline - candidate) / baseline * 100 for a non-zero baseline and exactly
\* 0 for a zero baseline; nothing is divided by zero.
C18_Reduction ==
    pc = "compare_out" =>
        /\ IsReduction(ret.distance, args.greedy.total_distance, args.quantum.total_distance)
        /\ IsReduction(ret.time, args.greedy.travel_time, args.quantum.travel_time)
        /\ IsReduction(ret.advanced.distance_reduction_pct,
                       args.greedy.total_distance, args.quantum.total_distance)
        /\ IsReduction(ret.advanced.time_reduction_pct,
                       args.greedy.travel_time, args.quantum.travel_time)

C18_Witness ==
    /\ pc = "compare_out"
    /\ args.greedy = [ total_distance |-> 10, travel_time |-> 0 ]
    /\ args.quantum = [ total_distance |-> 8, travel_time |-> 5 ]
    /\ ret.distance.value = [ num |-> 20, den |-> 1 ]
    /\ ret.time.value = [ num |-> 0, den |-> 1 ]
    /\ ret.advanced.distance_reduction_pct.value = [ num |-> 20, den |-> 1 ]


\* ------------------------------------------------------------ CityGraph construction
\* the node and edge lists handed to CityGraph(nodes=..., edges=...): zero to
\* MaxNodes nodes of any types, no edge or one edge
Payloads ==
    [ nodes : UNION { NodeLists(m) : m \in { k \in 0..MaxNodes : k <= Len(NodePool) } },
      edges : { <<>>, << MkEdge(NodePool[1].id, NodePool[2].id,
                                [ distance |-> 2, traffic |-> "low" ]) >> } ]

InitConstruct ==
    /\ pc = "construct_in"
    /\ graph = NoGraph
    /\ params = DefaultParams
    /\ node_ids = <<>>
    /\ depot_id = None
    /\ route = <<>>
    /\ Blank
    /\ args \in Payloads
    /\ ret = None

\* graph = CityGraph(nodes=nodes, edges=edges): the graph, or a validation error
Construct ==
    /\ pc = "construct_in"
    /\ IF GraphAccepted(args.nodes, args.edges)
       THEN /\ graph' = MkGraph(args.nodes, args.edges)
            /\ pc' = "start"
            /\ UNCHANGED raised
       ELSE /\ raised' = TRUE
            /\ pc' = "rejected"
            /\ UNCHANGED graph
    /\ UNCHANGED << args, ret, params, bqm, sample, used_nodes, assigned_vars, pos_idx,
                    energy, node_ids, depot_id, route, feasible, priority_satisfied,
                    calls, prev_result >>

\* construction, then the entry of either solver on the constructed graph
NextConstruct == Construct \/ BuildQubo \/ GreedySolve

SpecConstruct == InitConstruct /\ [][NextConstruct]_vars

\* the number of depots among the nodes handed to the constructor
PayloadDepots == Cardinality({ i \in DOMAIN args.nodes : args.nodes[i].type = DEPOT })

\* more than one depot, fewer than two locations, or no connection
PayloadInvalid == PayloadDepots > 1 \/ Len(args.nodes) < 2 \/ Len(args.edges) < 1

\* C19: a graph with more than one depot, fewer than two locations or no
\* connection is rejected at construction, and no solver operation runs on it.
C19_Rejected ==
    /\ (pc # "construct_in" /\ PayloadInvalid) => (pc = "rejected" /\ raised)
    /\ pc \in { "built", "greedy_done", "greedy_hangs" } =>
         /\ ~PayloadInvalid
         /\ Len(graph.nodes) >= 2
         /\ Len(graph.edges) >= 1
         /\ Cardinality(DepotSet) <= 1

C19_Witness ==
    /\ pc = "rejected"
    /\ raised
    /\ Len(args.nodes) = 3
    /\ Len(args.edges) = 1
    /\ PayloadDepots = 2


\* ------------------------------------------------------------ decode_route on malformed names
\* names outside the grammar x_<node_id>_<position>, for a node id d and n
\* positions: no "x_" prefix, no numeric position, no position part at all,
\* no node id, and a position outside [0, n)
MalformedKeys(d, n) ==
    << << "y", "_" >> \o d \o << "_", "0" >>,
       << "x", "_" >> \o d \o << "_", "q" >>,
       << "x", "_" >> \o d,
       << "x", "_", "0" >>,
       Var(d, n) >>

\* the keys of a drawn sample: one well-formed variable per node, then the
\* malformed names
MixedKeys(ids) ==
    [ i \in DOMAIN ids |-> Var(ids[i], i - 1) ] \o MalformedKeys(ids[1], Len(ids))

InitMalformed ==
    /\ pc = "decode_in"
    /\ graph = NoGraph
    /\ params = DefaultParams
    /\ node_ids \in DecodeIdLists
    /\ depot_id \in DecodeDepots
    /\ route = <<>>
    /\ bqm = EmptyBQM
    /\ sample \in { [ keys |-> MixedKeys(node_ids), val |-> vl ] :
                      vl \in [ Range(MixedKeys(node_ids)) -> { 0, 1 } ] }
    /\ used_nodes = {}
    /\ assigned_vars = {}
    /\ pos_idx = 0
    /\ energy = None
    /\ raised = FALSE
    /\ feasible = None
    /\ priority_satisfied = None
    /\ calls = 0
    /\ prev_result = None
    /\ NoCall

NextMalformed == DecodeCall

SpecMalformed == InitMalformed /\ [][NextMalformed]_vars

\* the name matches x_<node_id>_<position> with a position in [0, n)
WellFormed(key, n) ==
    LET parts == Split(key)
        last == parts[Len(parts)]
    IN  /\ Len(parts) >= 3
        /\ parts[1] = << "x" >>
        /\ Join(SubSeq(parts, 2, Len(parts) - 1)) # <<>>
        /\ last # <<>>
        /\ \A i \in DOMAIN last : IsDigit(last[i])
        /\ NatOf(last) < n

\* the sample with every malformed name set to 0
WellFormedOnly ==
    [ keys |-> sample.keys,
      val |-> [ key \in Range(sample.keys) |->
                  IF WellFormed(key, Len(node_ids)) THEN sample.val[key] ELSE 0 ] ]

\* C20: decode never raises on a malformed name, and the route is the one
\* built from the well-formed 1-valued variables alone.
C20_MalformedIgnored ==
    pc = "decode_out" =>
        /\ ~raised
        /\ route = decode_route(WellFormedOnly, node_ids, depot_id).route


\* ------------------------------------------------------------ encode and the minimal energy
\* the graphs without a far connection: every weight is at most 6
NearGraphs == { g \in Graphs : \A i \in DOMAIN g.edges : g.edges[i].distance <= 4 }

\* penalty configurations that dominate these weights
StrongParams == { DefaultParams, [ A |-> 200, B |-> 1000, Bp |-> 2000, C |-> 1 ] }

InitEncode ==
    /\ pc = "start"
    /\ graph \in NearGraphs
    /\ params \in StrongParams
    /\ node_ids = <<>>
    /\ depot_id = None
    /\ route = <<>>
    /\ Blank
    /\ NoCall

NextEncode == BuildQubo

SpecEncode == InitEncode /\ [][NextEncode]_vars

\* every binary assignment of the variables of the BQM
Assignments == [ Range(bqm.variables) -> { 0, 1 } ]

\* the least energy of the BQM over all binary assignments
MinEnergy ==
    LET es == { Energy(bqm, x) : x \in Assignments }
    IN  CHOOSE e \in es : \A f \in es : e <= f

\* one 1-valued variable per position and per delivery node
OneHot(x) ==
    LET n == NumDelivery
    IN  /\ \A q \in 0..(n - 1) :
             Cardinality({ i \in 1..n : x[Var(DeliverySeq[i], q)] = 1 }) = 1
        /\ \A i \in 1..n :
             Cardinality({ q \in 0..(n - 1) : x[Var(DeliverySeq[i], q)] = 1 }) = 1

\* every priority node holds one of the first k positions
PriorityInZone(x) ==
    \A d \in PrioritySet :
        \E q \in 0..(Cardinality(PrioritySet) - 1) : x[Var(d, q)] = 1

\* C4: every assignment of minimal energy has one 1-valued variable per
\* position and per delivery node, and places the priority nodes in the first
\* k positions.
C4_MinimisersFeasible ==
    pc = "built" =>
        LET least == MinEnergy
        IN  \A x \in Assignments :
              Energy(bqm, x) = least => (OneHot(x) /\ PriorityInZone(x))

\* ------------------------------------------------------------ build_qubo on any graph
NextBuild == BuildQubo

\* bqm = build_qubo(graph, params) for every drawn graph and penalty configuration
SpecBuild == Init /\ [][NextBuild]_vars

\* the linear bias of the variable of node d at position q
Linear(d, q) == bqm.linear[Var(d, q)]

\* the positions of the priority zone and the positions behind it
Zone == 0..(Cardinality(PrioritySet) - 1)

Behind == Cardinality(PrioritySet)..(NumDelivery - 1)

\* the linear biases order the positions: a priority node is dearer behind the
\* zone than inside it, a normal node dearer inside than behind
LinearOrder ==
    /\ \A d \in PrioritySet : \A q \in Behind : \A r \in Zone : Linear(d, q) > Linear(d, r)
    /\ \A d \in NormalSet : \A r \in Zone : \A q \in Behind : Linear(d, r) > Linear(d, q)

\* default penalties and 1 <= k < n
MixedDefault ==
    /\ pc = "built"
    /\ params = DefaultParams
    /\ Cardinality(PrioritySet) >= 1
    /\ Cardinality(PrioritySet) < NumDelivery

\* C21 as stated: with the default penalties and 1 <= k < n, with or without
\* a depot, the linear biases order the positions.
C21_Original == MixedDefault => LinearOrder

\* the depot bias C * weight(depot, d) of every priority node is below B
DepotNear ==
    \A dep \in DepotSet : \A d \in PrioritySet :
        params.C * get_edge_weight(graph, dep, d).w < params.B

\* C21: with the default penalties, 1 <= k < n and every priority node nearer
\* to the depot (if any) than B / C, the linear biases order the positions.
C21_LinearOrder == (MixedDefault /\ DepotNear) => LinearOrder

C21_Witness ==
    /\ MixedDefault
    /\ DepotNear
    /\ DepotSet # {}
    /\ NumDelivery = 2
    /\ \E d \in PrioritySet : Linear(d, 0) > Linear(d, 1) - params.B /\ Linear(d, 1) > Linear(d, 0)

\* ------------------------------------------------------------ the one-hot terms
\* the energy that the calls ops contribute at the assignment x
TermEnergy(ops, x) == Energy(ApplyOps(bqm.variables, ops), x)

\* how many of the variables vs are 1 in x
CountOnes(vs, x) == Cardinality({ v \in vs : x[v] = 1 })

Square(m) == m * m

\* C22: the energy of the one-hot term of every position, and of the row term
\* of every node, is A * (1 - s)^2 at every binary assignment, s being the
\* number of 1-valued variables of the group.
C22_OneHotTerm ==
    pc = "built" =>
        \A x \in Assignments :
            /\ \A q \in 0..(NumDelivery - 1) :
                 TermEnergy(PositionOps(DeliverySeq, params, q), x)
                   = params.A * Square(1 - CountOnes({ Var(d, q) : d \in Range(DeliverySeq) }, x))
            /\ \A d \in Range(DeliverySeq) :
                 TermEnergy(RowOps(d, NumDelivery, params.A), x)
                   = params.A * Square(1 - CountOnes({ Var(d, q) : q \in 0..(NumDelivery - 1) }, x))

\* ------------------------------------------------------------ the biases of the BQM
Bool(b) == IF b THEN 1 ELSE 0

\* weight(u, v) of the graph, 0 when it is not finite
WeightOf(u, v) ==
    LET weight == get_edge_weight(graph, u, v)
    IN  IF Finite(weight) THEN weight.w ELSE 0

\* the linear bias the rule gives the variable of node d at position q
LinearRule(d, q) ==
    LET k == Cardinality(PrioritySet)
    IN  (0 - 4) * params.A
        - Bool(d \in PrioritySet) * 2 * params.Bp
        + Bool((d \in PrioritySet /\ q >= k) \/ (d \notin PrioritySet /\ q < k)) * params.B
        + SumSeq([ i \in 1..Cardinality(DepotSet) |->
                     IF q = 0
                     THEN params.C * WeightOf(CHOOSE dep \in DepotSet : TRUE, d)
                     ELSE 0 ])

\* C23: after encode the linear bias of the variable (i, p) is -4A, minus 2Bp
\* if i is a priority node, plus B if i is priority and p >= k or i is normal
\* and p < k, plus C * weight(depot, i) if a depot exists and p = 0.
C23_LinearBias ==
    pc = "built" =>
        \A d \in Range(DeliverySeq) : \A q \in 0..(NumDelivery - 1) :
            Linear(d, q) = LinearRule(d, q)

C23_Witness ==
    /\ pc = "built"
    /\ DepotSet # {}
    /\ PrioritySet # {}
    /\ NormalSet # {}
    /\ \E d \in PrioritySet : Linear(d, 0) # Linear(d, 1) - params.B

\* |p - q|
Dist(p, q) == IF p >= q THEN p - q ELSE q - p

\* the quadratic bias the rule gives the variables (u, p) and (v, q)
QuadraticRule(u, p, v, q) ==
    IF u # v /\ p = q THEN 2 * params.A
    ELSE IF u = v /\ p # q THEN 2 * params.A + Bool(u \in PrioritySet) * 2 * params.Bp
    ELSE IF u # v /\ Dist(p, q) = 1
    THEN params.C * (IF p < q THEN WeightOf(u, v) ELSE WeightOf(v, u))
    ELSE 0

\* C24: after encode the quadratic bias between (u, p) and (v, q) is 2A if
\* u # v and p = q; 2A, plus 2Bp when u is priority, if u = v and p # q;
\* C * weight(u, v) if u # v and |p - q| = 1; and 0 for every other pair.
C24_QuadraticBias ==
    pc = "built" =>
        \A u \in Range(DeliverySeq), v \in Range(DeliverySeq) :
            \A p \in 0..(NumDelivery - 1), q \in 0..(NumDelivery - 1) :
                Var(u, p) # Var(v, q) =>
                    bqm.quadratic[{ Var(u, p), Var(v, q) }] = QuadraticRule(u, p, v, q)

C24_Witness ==
    /\ pc = "built"
    /\ NumDelivery = 3
    /\ PrioritySet # {}
    /\ \E u \in Range(DeliverySeq), v \in Range(DeliverySeq) :
          /\ u # v
          /\ bqm.quadratic[{ Var(u, 0), Var(v, 1) }] > 0
          /\ bqm.quadratic[{ Var(u, 0), Var(v, 2) }] = 0

\* ------------------------------------------------------------ MockSampler.sample step by step
NextSample ==
    \/ BuildQubo
    \/ SampleBegin
    \/ SampleStep
    \/ SampleEnd

\* sample(bqm) on the BQM of every drawn graph, one position at a time
SpecSample == Init /\ [][NextSample]_vars

\* the place of a variable in the enumeration order of the BQM
IndexOf(v) == CHOOSE i \in DOMAIN bqm.variables : bqm.variables[i] = v

\* the variables already fixed to 1
Fixed == { v \in DOMAIN sample.val : sample.val[v] = 1 }

\* the nodes and the positions of the variables already fixed to 1
FixedNodes == { d \in Range(DeliverySeq) : \E q \in 0..(NumDelivery - 1) : Var(d, q) \in Fixed }

FixedPositions == { q \in 0..(NumDelivery - 1) : \E d \in Range(DeliverySeq) : Var(d, q) \in Fixed }

\* linear bias of v plus its quadratic biases with the variables in fixed
MarginalEnergy(v, fixed) ==
    bqm.linear[v]
    + SumSeq([ i \in DOMAIN bqm.variables |->
                 IF bqm.variables[i] \in fixed /\ bqm.variables[i] # v
                 THEN bqm.quadratic[{ v, bqm.variables[i] }] ELSE 0 ])

\* the step fixes the variable of node d at position q
Fixes(d, q) == sample.val[Var(d, q)] = 0 /\ sample'.val[Var(d, q)] = 1

\* one step of the loop over the positions
GreedyChoice ==
    /\ \A v \in Fixed : sample'.val[v] = 1
    /\ Cardinality({ v \in DOMAIN sample.val : sample.val[v] = 0 /\ sample'.val[v] = 1 }) <= 1
    /\ (pos_idx' = pos_idx + 1 /\ FixedNodes # Range(DeliverySeq)) =>
          \E d \in Range(DeliverySeq), q \in 0..(NumDelivery - 1) : Fixes(d, q)
    /\ \A d \in Range(DeliverySeq), q \in 0..(NumDelivery - 1) :
          Fixes(d, q) =>
             /\ \A r \in FixedPositions : r < q
             /\ d \notin FixedNodes
             /\ \A u \in Range(DeliverySeq) \ FixedNodes :
                   \/ MarginalEnergy(Var(u, q), Fixed) > MarginalEnergy(Var(d, q), Fixed)
                   \/ /\ MarginalEnergy(Var(u, q), Fixed) = MarginalEnergy(Var(d, q), Fixed)
                      /\ IndexOf(Var(d, q)) <= IndexOf(Var(u, q))

\* C25: the greedy sampler handles the positions in ascending order; at each
\* position it fixes to 1 the variable of an unused node of minimal marginal
\* energy, the first in the enumeration order on a tie; a variable fixed to 1
\* is never reset.
C25_GreedyChoice == [][pc = "sampling" => GreedyChoice]_vars

\* a step has just chosen between nodes of equal marginal energy
C25_Witness ==
    /\ pc = "sampling"
    /\ pos_idx = 2
    /\ Cardinality(Fixed) = 1
    /\ \E d \in FixedNodes, u \in Range(DeliverySeq) \ FixedNodes :
          /\ Var(d, 0) \in Fixed
          /\ bqm.linear[Var(d, 0)] = bqm.linear[Var(u, 0)]
          /\ IndexOf(Var(d, 0)) < IndexOf(Var(u, 0))

\* the variable fixed at position q
ChosenAt(q) == CHOOSE v \in Fixed : \E d \in Range(DeliverySeq) : v = Var(d, q)

\* the variables fixed at the positions before q
ChosenBefore(q) == { v \in Fixed : \E d \in Range(DeliverySeq), r \in 0..(q - 1) : v = Var(d, r) }

\* C27: the energy the greedy sampler returns is the BQM energy of the
\* returned assignment: the offset plus the sum, over the positions, of the
\* marginal energy of the variable chosen there.
C27_EnergyOfChoices ==
    pc = "sampled" =>
        energy = Some(bqm.offset
                      + SumSeq([ i \in 1..NumDelivery |->
                                   MarginalEnergy(ChosenAt(i - 1), ChosenBefore(i - 1)) ]))

C27_Witness ==
    /\ pc = "sampled"
    /\ NumDelivery = 3
    /\ bqm.offset # 0
    /\ energy # Some(bqm.offset)
    /\ energy # None

\* ------------------------------------------------------------ the energy of the permutations
\* the orders of the delivery nodes: node perm[i] at position i - 1
Orders ==
    { perm \in [ 1..NumDelivery -> Range(DeliverySeq) ] :
        \A i, j \in 1..NumDelivery : perm[i] = perm[j] => i = j }

\* the assignment of a permutation
AssignmentOf(perm) ==
    [ v \in Range(bqm.variables) |->
        IF \E i \in 1..NumDelivery : v = Var(perm[i], i - 1) THEN 1 ELSE 0 ]

\* priority nodes at positions >= k plus normal nodes at positions < k
zoneViolations(perm) ==
    LET k == Cardinality(PrioritySet)
    IN  Cardinality({ i \in 1..NumDelivery :
                        \/ perm[i] \in PrioritySet /\ i - 1 >= k
                        \/ perm[i] \notin PrioritySet /\ i - 1 < k })

\* the weights between consecutive nodes plus the depot-to-first-node weight
cost(perm) ==
    SumSeq([ i \in 1..(NumDelivery - 1) |-> WeightOf(perm[i], perm[i + 1]) ])
    + SumSeq([ i \in 1..Cardinality(DepotSet) |->
                 WeightOf(CHOOSE dep \in DepotSet : TRUE, perm[1]) ])

\* C26: for any two permutation assignments x and y of the encoded BQM,
\* energy(x) - energy(y) = B * (zoneViolations(x) - zoneViolations(y))
\*                         + C * (cost(x) - cost(y)).
C26_EnergyDifference ==
    pc = "built" =>
        \A px \in Orders, py \in Orders :
            Energy(bqm, AssignmentOf(px)) - Energy(bqm, AssignmentOf(py))
              = params.B * (zoneViolations(px) - zoneViolations(py))
                + params.C * (cost(px) - cost(py))

C26_Witness ==
    /\ pc = "built"
    /\ NumDelivery = 3
    /\ \E px \in Orders, py \in Orders :
          /\ zoneViolations(px) # zoneViolations(py)
          /\ cost(px) # cost(py)
          /\ Energy(bqm, AssignmentOf(px)) # Energy(bqm, AssignmentOf(py))

\* ------------------------------------------------------------ count_priority_violations against validate_route
\* violations = count_priority_violations(route, graph), after validate_route
CountCall ==
    /\ pc = "validated"
    /\ ret' = Some(count_priority_violations(route, graph))
    /\ pc' = "counted"
    /\ UNCHANGED << args, graph, params, bqm, sample, used_nodes, assigned_vars, pos_idx, energy,
                    node_ids, depot_id, route, raised, feasible, priority_satisfied,
                    calls, prev_result >>

NextCount ==
    \/ ValidateCall
    \/ CountCall

SpecCount == InitValidate /\ [][NextCount]_vars

\* C28: for every route whose id set is the node-id set of the graph,
\* count_priority_violations is 0 exactly when validate_route reports
\* priority_satisfied = true.
C28_CountAgrees ==
    (pc = "counted" /\ Range(route) = AllIds) =>
        (ret = Some(0) <=> priority_satisfied = Some(TRUE))

C28_Witness ==
    /\ pc = "counted"
    /\ Range(route) = AllIds
    /\ DepotSet # {}
    /\ route[1] \in DepotSet
    /\ Cardinality(PrioritySet) = 1
    /\ route[3] \in PrioritySet
    /\ ret = Some(1)
    /\ priority_satisfied = Some(FALSE)

\* ------------------------------------------------------------ the length of the decoded route
\* the 1-valued well-formed variables of the sample at position q
WellFormedAt(q) ==
    { key \in Range(sample.keys) :
        /\ sample.val[key] = 1
        /\ WellFormed(key, Len(node_ids))
        /\ NatOf(LastPart(key)) = q }

\* the positions of [0, n) that hold a 1-valued well-formed variable
WellOccupied == { q \in 0..(Len(node_ids) - 1) : WellFormedAt(q) # {} }

\* the j-th such position, ascending
WellOccupiedAt(j) == CHOOSE q \in WellOccupied : Cardinality({ r \in WellOccupied : r < q }) = j - 1

\* C29: for every assignment the route decoded without a depot is as long as
\* the number of positions of [0, n) holding a 1-valued well-formed variable,
\* at most n, and its j-th entry is the node of one of the variables of the
\* j-th such position.
C29_RouteLength ==
    (pc = "decode_out" /\ ~raised /\ depot_id = None) =>
        /\ Len(route) = Cardinality(WellOccupied)
        /\ Len(route) <= Len(node_ids)
        /\ \A j \in 1..Len(route) :
              \E key \in WellFormedAt(WellOccupiedAt(j)) : route[j] = ParsedNode(key)

\* ------------------------------------------------------------ greedy_solve loop by loop
\* most iterations of the loops that are followed
MaxIterations == 4

\* the graph with the id of its i-th node, and the ends of its connections, replaced by ''
WithEmptyId(g, i) ==
    LET old == g.nodes[i].id
    IN  [ g EXCEPT !.nodes[i].id = <<>>,
                   !.edges = [ j \in DOMAIN g.edges |->
                                 [ g.edges[j] EXCEPT
                                     !.from_node = IF @ = old THEN <<>> ELSE @,
                                     !.to_node = IF @ = old THEN <<>> ELSE @ ] ] ]

\* the graphs greedy_solve is called with: the drawn graphs, and the same with
\* one id empty (Node.id is any str)
LoopGraphs == Graphs \cup { WithEmptyId(g, i) : g \in { h \in Graphs : Len(h.nodes) = 2 }, i \in 1..2 }
                     \cup { WithEmptyId(g, Len(g.nodes)) : g \in Graphs }

InitLoops ==
    /\ pc = "start"
    /\ graph \in LoopGraphs
    /\ params = DefaultParams
    /\ node_ids = <<>>
    /\ depot_id = None
    /\ route = <<>>
    /\ Blank
    /\ NoCall

\* greedy_solve up to the first "while": the start node of the route; the
\* locals of the call are kept in ret, with the number of loop iterations so far
GreedyBegin ==
    /\ pc = "start"
    /\ LET prio == SelectSeq(graph.nodes, LAMBDA nd : nd.type = PRIORITY)
           norm == SelectSeq(graph.nodes, LAMBDA nd : nd.type = NORMAL)
           start == [ current |-> None, route |-> <<>>, total_distance |-> 0,
                      travel_time |-> 0, unvisited |-> <<>>, iterations |-> 0 ]
       IN  IF prio # <<>>
           THEN /\ ret' = [ start EXCEPT !.current = Some(prio[1].id),
                                         !.route = << prio[1].id >>,
                                         !.unvisited = Tail(prio) ]
                /\ pc' = "phase1"
           ELSE /\ ret' = IF norm # <<>>
                          THEN [ start EXCEPT !.current = Some(norm[1].id),
                                              !.route = << norm[1].id >>,
                                              !.unvisited = Tail(norm) ]
                          ELSE start
                /\ pc' = "phase2"
    /\ UNCHANGED << args, graph, params, bqm, sample, used_nodes, assigned_vars, pos_idx,
                    energy, node_ids, depot_id, route, raised, feasible,
                    priority_satisfied, calls, prev_result >>

\* the body of "if nearest_id:" in either loop
Visited(loc, nearest_id) ==
    LET leg == get_weighted_distance(graph, loc.current[1], nearest_id)
    IN  [ loc EXCEPT !.total_distance = @ + leg.dist,
                     !.travel_time = @ + leg.weighted,
                     !.route = Append(@, nearest_id),
                     !.current = Some(nearest_id),
                     !.unvisited = SelectSeq(@, LAMBDA nd : nd.id # nearest_id),
                     !.iterations = @ + 1 ]

\* one iteration of "while unvisited_priority:", which has no else branch
PriorityStep ==
    /\ pc = "phase1"
    /\ ret.unvisited # <<>>
    /\ ret.iterations < MaxIterations
    /\ LET nearest_id == find_nearest(graph, ret.current[1], ret.unvisited)
       IN  ret' = IF Truthy(nearest_id)
                  THEN Visited(ret, nearest_id[1])
                  ELSE [ ret EXCEPT !.iterations = @ + 1 ]
    /\ UNCHANGED << pc, args, graph, params, bqm, sample, used_nodes, assigned_vars, pos_idx,
                    energy, node_ids, depot_id, route, raised, feasible,
                    priority_satisfied, calls, prev_result >>

\* "while unvisited_priority:" ends; unvisited_normal = list(normal_nodes)
PriorityEnd ==
    /\ pc = "phase1"
    /\ ret.unvisited = <<>>
    /\ ret' = [ ret EXCEPT !.unvisited = SelectSeq(graph.nodes, LAMBDA nd : nd.type = NORMAL) ]
    /\ pc' = "phase2"
    /\ UNCHANGED << args, graph, params, bqm, sample, used_nodes, assigned_vars, pos_idx,
                    energy, node_ids, depot_id, route, raised, feasible,
                    priority_satisfied, calls, prev_result >>

\* one iteration of "while unvisited_normal:", whose else branch breaks
NormalStep ==
    /\ pc = "phase2"
    /\ ret.unvisited # <<>>
    /\ ret.iterations < MaxIterations
    /\ LET nearest_id == find_nearest(graph, ret.current[1], ret.unvisited)
       IN  IF Truthy(nearest_id)
           THEN /\ ret' = Visited(ret, nearest_id[1])
                /\ pc' = "phase2"
           ELSE /\ ret' = [ ret EXCEPT !.iterations = @ + 1 ]
                /\ pc' = "finish"
    /\ UNCHANGED << args, graph, params, bqm, sample, used_nodes, assigned_vars, pos_idx,
                    energy, node_ids, depot_id, route, raised, feasible,
                    priority_satisfied, calls, prev_result >>

\* "while unvisited_normal:" ends
NormalEnd ==
    /\ pc = "phase2"
    /\ ret.unvisited = <<>>
    /\ pc' = "finish"
    /\ UNCHANGED << ret, args, graph, params, bqm, sample, used_nodes, assigned_vars, pos_idx,
                    energy, node_ids, depot_id, route, raised, feasible,
                    priority_satisfied, calls, prev_result >>

\* the SolverResponse is built and returned
GreedyReturn ==
    /\ pc = "finish"
    /\ LET priority_ids == { nd.id : nd \in Range(priority_nodes(graph)) }
           k == Cardinality(priority_ids)
           priority_positions == { i - 1 : i \in { j \in DOMAIN ret.route : ret.route[j] \in priority_ids } }
       IN  ret' = [ route |-> ret.route,
                    total_distance |-> ret.total_distance, travel_time |-> ret.travel_time,
                    feasible |-> Len(ret.route) = Len(graph.nodes) /\ NoDuplicates(ret.route),
                    priority_satisfied |-> IF k > 0
                                           THEN priority_positions # {}
                                                /\ \A q \in priority_positions : q < k
                                           ELSE TRUE,
                    energy |-> None, solver_used |-> "greedy" ]
    /\ pc' = "returned"
    /\ UNCHANGED << args, graph, params, bqm, sample, used_nodes, assigned_vars, pos_idx,
                    energy, node_ids, depot_id, route, raised, feasible,
                    priority_satisfied, calls, prev_result >>

NextLoops ==
    \/ GreedyBegin
    \/ PriorityStep
    \/ PriorityEnd
    \/ NormalStep
    \/ NormalEnd
    \/ GreedyReturn

SpecLoops == InitLoops /\ [][NextLoops]_vars

\* C30: greedy_solve terminates on every valid graph: every iteration of its
\* two loops removes a node from the unvisited list, so the loops together
\* run at most (node count - 1) iterations.
C30_Terminates ==
    pc \in { "phase1", "phase2", "finish" } =>
        ret.iterations <= Len(graph.nodes) - 1

====
